---- MODULE Spec2Model ----
(***************************************************************************)
(* Model of pass_gen.py: the passphrase generator's main(), its word       *)
(* filter (is_reasonable_word, load_words_from_file, parse_eff_wordlist)   *)
(* and its assembler (choose_separator, generate_passphrase).              *)
(*                                                                         *)
(* A Python str is a sequence of one-character strings; an Optional[str]   *)
(* is a sequence of length 0 (None) or 1 (the value).                      *)
(***************************************************************************)
EXTENDS Integers, Sequences, FiniteSets, TLC

VARIABLES args, exists, eff_content, pc, words, raw, source, opened,
          net, resp, stderr, n_printed, last, exit_code, http_gets, file_writes

vars == <<args, exists, eff_content, pc, words, raw, source, opened,
          net, resp, stderr, n_printed, last, exit_code, http_gets, file_writes>>

-----------------------------------------------------------------------------
(* Characters and the str methods the program uses *)

LowerSeq == <<"a","b","c","d","e","f","g","h","i","j","k","l","m",
              "n","o","p","q","r","s","t","u","v","w","x","y","z">>
UpperSeq == <<"A","B","C","D","E","F","G","H","I","J","K","L","M",
              "N","O","P","Q","R","S","T","U","V","W","X","Y","Z">>
Whitespace == {" ", "\t"}

IsLowerAZ(c) == \E i \in DOMAIN LowerSeq : LowerSeq[i] = c
IsUpperAZ(c) == \E i \in DOMAIN UpperSeq : UpperSeq[i] = c

\* str.lower() / str.upper() on one character
ToLower(c) == IF IsUpperAZ(c) THEN LowerSeq[CHOOSE i \in DOMAIN UpperSeq : UpperSeq[i] = c] ELSE c
ToUpper(c) == IF IsLowerAZ(c) THEN UpperSeq[CHOOSE i \in DOMAIN LowerSeq : LowerSeq[i] = c] ELSE c

StrLower(s) == [i \in 1..Len(s) |-> ToLower(s[i])]

\* str.capitalize(): first character upper-cased, the rest lower-cased
StrCapitalize(s) ==
    IF s = <<>> THEN s ELSE <<ToUpper(s[1])>> \o StrLower(Tail(s))

\* str.strip(): drop leading and trailing whitespace
StrStrip(s) ==
    LET nonws == {i \in 1..Len(s) : s[i] \notin Whitespace}
    IN  IF nonws = {} THEN <<>>
        ELSE LET lo == CHOOSE i \in nonws : \A j \in nonws : i <= j
                 hi == CHOOSE i \in nonws : \A j \in nonws : i >= j
             IN  SubSeq(s, lo, hi)

\* str.split() with no argument: the maximal runs of non-whitespace
RECURSIVE StrSplitWs(_)
StrSplitWs(s) ==
    LET t == StrStrip(s)
    IN  IF t = <<>> THEN <<>>
        ELSE LET ws == {i \in 1..Len(t) : t[i] \in Whitespace}
             IN  IF ws = {} THEN <<t>>
                 ELSE LET k == CHOOSE i \in ws : \A j \in ws : i <= j
                      IN  <<SubSeq(t, 1, k - 1)>> \o StrSplitWs(SubSeq(t, k + 1, Len(t)))

\* sep.join(parts)
RECURSIVE StrJoin(_, _)
StrJoin(sep, parts) ==
    IF parts = <<>> THEN <<>>
    ELSE IF Len(parts) = 1 THEN parts[1]
    ELSE parts[1] \o sep \o StrJoin(sep, Tail(parts))

\* re.fullmatch(r"[a-z]+", w)
FullMatchLower(w) == w # <<>> /\ \A i \in 1..Len(w) : IsLowerAZ(w[i])

\* re.fullmatch(r"[a-z]+(?:'[a-z]+)?", w)
FullMatchLowerApostrophe(w) ==
    \/ FullMatchLower(w)
    \/ \E k \in 1..Len(w) :
          /\ w[k] = "'"
          /\ FullMatchLower(SubSeq(w, 1, k - 1))
          /\ FullMatchLower(SubSeq(w, k + 1, Len(w)))

-----------------------------------------------------------------------------
(* Module constants of pass_gen.py *)

\* DEFAULT_SEP_SET = "!@#$%^&*_-+=:.?/"
DEFAULT_SEP_SET == <<"!","@","#","$","%","^","&","*","_","-","+","=",":",".","?","/">>

DEFAULT_WORDLIST_CANDIDATES == <<"/usr/share/dict/words", "/usr/dict/words">>

DEFAULT_EFF_FILENAME == "eff_large_wordlist.txt"

\* eff_path = Path.cwd() / DEFAULT_EFF_FILENAME
EffPath == DEFAULT_EFF_FILENAME

\* Entries of FALLBACK_WORDS (the list holds 304 distinct lowercase words of
\* 4 to 9 letters; three of them, in list order, stand for it).
FALLBACK_WORDS == << <<"a","t","o","m">>, <<"e","c","h","o">>, <<"o","r","b","i","t">> >>

\* if len(words) < 1000: warning
WarnThreshold == 1000

-----------------------------------------------------------------------------
(* Word filter *)

\* variant: the upper length bound is not checked
is_reasonable_wordNoMax(word, min_len, max_len, allow_apostrophe) ==
    LET w == StrStrip(word)
    IN  IF w = <<>> THEN FALSE
        ELSE IF Len(w) < min_len THEN FALSE
        ELSE IF allow_apostrophe THEN FullMatchLowerApostrophe(w)
        ELSE FullMatchLower(w)

is_reasonable_word(word, min_len, max_len, allow_apostrophe) ==
    LET w == StrStrip(word)
    IN  IF w = <<>> THEN FALSE
        ELSE IF Len(w) < min_len \/ Len(w) > max_len THEN FALSE
        ELSE IF allow_apostrophe THEN FullMatchLowerApostrophe(w)
        ELSE FullMatchLower(w)

\* the loop "for w in words: if w not in seen: uniq.append(w); seen.add(w)"
RECURSIVE DedupLoop(_, _, _)
DedupLoop(ws, seen, uniq) ==
    IF ws = <<>> THEN uniq
    ELSE IF Head(ws) \in seen THEN DedupLoop(Tail(ws), seen, uniq)
    ELSE DedupLoop(Tail(ws), seen \cup {Head(ws)}, Append(uniq, Head(ws)))

\* list(dict.fromkeys(words)): the keys in order of first insertion
DictFromKeys(ws) ==
    LET first == {i \in 1..Len(ws) : \A j \in 1..(i - 1) : ws[j] # ws[i]}
        Pos(k) == CHOOSE i \in first : Cardinality({j \in first : j <= i}) = k
    IN  [k \in 1..Cardinality(first) |-> ws[Pos(k)]]

RECURSIVE FileLoop(_, _, _, _)
FileLoop(lines, min_len, max_len, allow_apostrophe) ==
    IF lines = <<>> THEN <<>>
    ELSE LET w == StrLower(StrStrip(Head(lines)))
             rest == FileLoop(Tail(lines), min_len, max_len, allow_apostrophe)
         IN  IF is_reasonable_word(w, min_len, max_len, allow_apostrophe)
             THEN <<w>> \o rest ELSE rest

\* variant: the deduplication loop is left out
load_words_from_fileNoDedup(lines, min_len, max_len, allow_apostrophe) ==
    FileLoop(lines, min_len, max_len, allow_apostrophe)

load_words_from_file(lines, min_len, max_len, allow_apostrophe) ==
    DedupLoop(FileLoop(lines, min_len, max_len, allow_apostrophe), {}, <<>>)

RECURSIVE EffLoop(_, _, _, _)
EffLoop(lines, min_len, max_len, allow_apostrophe) ==
    IF lines = <<>> THEN <<>>
    ELSE LET line == StrStrip(Head(lines))
             parts == StrSplitWs(line)
             rest == EffLoop(Tail(lines), min_len, max_len, allow_apostrophe)
         IN  IF line = <<>> THEN rest
             ELSE IF Len(parts) < 2 THEN rest
             ELSE LET w == StrLower(StrStrip(parts[2]))
                  IN  IF is_reasonable_word(w, min_len, max_len, allow_apostrophe)
                      THEN <<w>> \o rest ELSE rest

parse_eff_wordlist(lines, min_len, max_len, allow_apostrophe) ==
    DictFromKeys(EffLoop(lines, min_len, max_len, allow_apostrophe))

\* [w for w in FALLBACK_WORDS if is_reasonable_word(w, ...)]
FallbackFilter(min_len, max_len, allow_apostrophe) ==
    SelectSeq(FALLBACK_WORDS,
              LAMBDA w : is_reasonable_word(w, min_len, max_len, allow_apostrophe))

\* the first candidate that exists and is a file, or None
find_default_wordlist(ex) ==
    LET hit == {i \in DOMAIN DEFAULT_WORDLIST_CANDIDATES : DEFAULT_WORDLIST_CANDIDATES[i] \in ex}
    IN  IF hit = {} THEN <<>>
        ELSE <<DEFAULT_WORDLIST_CANDIDATES[CHOOSE i \in hit : \A j \in hit : i <= j]>>

-----------------------------------------------------------------------------
(* Passphrase assembler.  secrets.choice / secrets.randbelow are inputs:   *)
(* each operator yields the set of results the call can return.            *)

\* variant: an emptied separator set yields the empty separator
choose_separatorNoFallback(sep, sep_set) ==
    IF sep # <<>> THEN { sep[1] }
    ELSE IF sep_set = <<>> THEN { <<>> }
    ELSE { <<sep_set[i]>> : i \in DOMAIN sep_set }

choose_separator(sep, sep_set) ==
    IF sep # <<>> THEN { sep[1] }
    ELSE IF sep_set = <<>> THEN { <<"-">> }
    ELSE { <<sep_set[i]>> : i \in DOMAIN sep_set }

\* one run of generate_passphrase with the draws pick (word indices) and idx
Assemble(ws, n_words, separator, titlecase, pick, idx) ==
    LET picked == [k \in 1..n_words |-> ws[pick[k]]]
        chosen == IF titlecase
                  THEN [picked EXCEPT ![idx] = StrCapitalize(picked[idx])]
                  ELSE picked
    IN  [sep |-> separator, picked |-> picked, chosen |-> chosen,
         out |-> StrJoin(separator, chosen)]

\* variant: --titlecase upper-cases every word entirely
generate_passphraseUpperAll(ws, n_words, separator, titlecase) ==
    { LET a == Assemble(ws, n_words, separator, FALSE, pick, 0)
          up == IF titlecase
                THEN [k \in 1..n_words |-> [i \in 1..Len(a.picked[k]) |-> ToUpper(a.picked[k][i])]]
                ELSE a.picked
      IN  [a EXCEPT !.chosen = up, !.out = StrJoin(separator, up)]
      : pick \in [1..n_words -> 1..Len(ws)] }

\* variant: a separator follows every word, the last included
generate_passphraseTrailingSep(ws, n_words, separator, titlecase) ==
    { LET a == Assemble(ws, n_words, separator, titlecase, pick, idx)
      IN  [a EXCEPT !.out = a.out \o separator]
      : pick \in [1..n_words -> 1..Len(ws)],
        idx \in (IF titlecase THEN 1..n_words ELSE {0}) }

generate_passphrase(ws, n_words, separator, titlecase) ==
    { Assemble(ws, n_words, separator, titlecase, pick, idx) :
        pick \in [1..n_words -> 1..Len(ws)],
        idx \in (IF titlecase THEN 1..n_words ELSE {0}) }

-----------------------------------------------------------------------------
(* Inputs: command lines, file system, file and response contents *)

MaxWords == 2
MaxCount == 2
MaxLines == 2

\* --min-len / --max-len values: below 1, inverted, and ranges that keep
\* short words only, four-letter words, and words of five letters or more
MinLenArgs == {0, 1, 5}
MaxLenArgs == {3, 4, 10}

UserWordlist == "words.txt"
\* --wordlist: omitted (None), the empty string, a path
WordlistArgs == { <<>>, <<"">>, <<UserWordlist>> }

Paths == {EffPath, UserWordlist} \cup {DEFAULT_WORDLIST_CANDIDATES[i] : i \in DOMAIN DEFAULT_WORDLIST_CANDIDATES}

\* lines of text files (without the line terminator)
L_atom == <<"a","t","o","m">>
L_Echo == <<"E","c","h","o">>
L_orbit_sp == <<" ","o","r","b","i","t"," ">>
L_dont == <<"d","o","n","'","t">>
L_its == <<"i","t","'","s">>
L_a_apos == <<"a","'">>
L_ab == <<"a","b">>
L_r2d2 == <<"r","2","d","2">>
L_empty == <<>>
L_eff_atom == <<"1","1"," ","a","t","o","m">>
L_eff_Atom_x == <<"1","2","\t","A","t","o","m"," ","x">>
L_eff_orbit == <<"1","3"," ","o","r","b","i","t">>
L_eff_dont == <<"1","4"," ","d","o","n","'","t">>
L_eff_short == <<"1","5">>

\* what a word file or the HTTP response can hold
FileContents ==
    { <<L_atom, L_Echo, L_atom, L_orbit_sp>>,
      <<L_dont, L_ab, L_r2d2, L_empty, L_its>>,
      <<>>,
      <<L_eff_atom, L_eff_short, L_empty, L_eff_Atom_x, L_eff_orbit>>,
      <<L_eff_dont, L_eff_atom>> }

RawLines == {L_atom, L_Echo, L_orbit_sp, L_dont, L_a_apos, L_ab, L_r2d2, L_empty,
             L_eff_atom, L_eff_Atom_x, L_eff_dont, L_eff_short}

BoundedSeq(S, n) == UNION {[1..k -> S] : k \in 0..n}

\* --sep: omitted (None), empty, one character, two characters, a capital letter
SepArgs == { <<>>, << <<>> >>, << <<"-">> >>, << <<"o","o">> >>, << <<"A">> >> }
\* --sep-set: emptied, one character, two characters
SepSetArgs == { <<>>, <<"+">>, <<"_","-">> }

ArgsOf(w, c, s, ss, wl, dl, mn, mx, ap, tc) ==
    [words |-> w, count |-> c, sep |-> s, sep_set |-> ss, wordlist |-> wl,
     download_eff |-> dl, min_len |-> mn, max_len |-> mx,
     allow_apostrophe |-> ap, titlecase |-> tc]

NoLast == [sep |-> <<>>, picked |-> <<>>, chosen |-> <<>>, out |-> <<>>]

\* the state main() starts in, for a command line a and a file system ex
Start(a, ex, at) ==
    /\ args = a
    /\ exists = ex
    /\ eff_content = <<>>
    /\ pc = at
    /\ words = <<>>
    /\ raw = <<>>
    /\ source = "none"
    /\ opened = <<>>
    /\ net = "unused"
    /\ resp = <<>>
    /\ stderr = <<>>
    /\ n_printed = 0
    /\ last = NoLast
    /\ exit_code = -1
    /\ http_gets = 0
    /\ file_writes = 0

\* every source option and file system, two separator settings
Init ==
    \E w \in 1..MaxWords, c \in 0..MaxCount, s \in { <<>>, << <<"-">> >> },
       wl \in WordlistArgs, dl \in BOOLEAN, mn \in MinLenArgs, mx \in MaxLenArgs,
       ap \in BOOLEAN, ex \in SUBSET Paths :
        Start(ArgsOf(w, c, s, <<"_","-">>, wl, dl, mn, mx, ap, FALSE), ex, "check_args")

\* every separator and capitalization option, words from the built-in list
InitGen ==
    \E w \in 1..MaxWords, c \in 0..MaxCount, s \in SepArgs, ss \in SepSetArgs,
       tc \in BOOLEAN :
        Start(ArgsOf(w, c, s, ss, <<>>, FALSE, 4, 10, FALSE, tc), {}, "check_args")

\* the filter functions alone, under every accepted length range
InitFilter ==
    \E mn \in MinLenArgs, mx \in MaxLenArgs, ap \in BOOLEAN :
        /\ mn >= 1 /\ mx >= mn
        /\ Start(ArgsOf(2, 1, <<>>, DEFAULT_SEP_SET, <<>>, FALSE, mn, mx, ap, FALSE), {}, "filter")

-----------------------------------------------------------------------------
(* main() *)

\* "if args.wordlist:" -- None and the empty string are false
Truthy(opt) == opt # <<>> /\ opt[1] # ""

\* variant: the --count check is left out
ArgsErrorNoCount(a) ==
    IF a.words < 2 THEN <<"Error: --words must be >= 2 for a sensible passphrase.">>
    ELSE IF a.min_len < 1 \/ a.max_len < a.min_len THEN <<"Error: invalid --min-len/--max-len.">>
    ELSE <<>>

\* the argument checks: the diagnostic of the first check that fails, or none
ArgsError(a) ==
    IF a.words < 2 THEN <<"Error: --words must be >= 2 for a sensible passphrase.">>
    ELSE IF a.count < 1 THEN <<"Error: --count must be >= 1.">>
    ELSE IF a.min_len < 1 \/ a.max_len < a.min_len THEN <<"Error: invalid --min-len/--max-len.">>
    ELSE <<>>

\* variant: the list is downloaded whether or not a copy exists
NeedsDownloadAlways(ex) == TRUE

\* "if not eff_path.exists():"
NeedsDownload(ex) == EffPath \notin ex

\* variant: --wordlist is looked at before --download-eff
SourceBranchFileFirst(a) ==
    IF Truthy(a.wordlist) THEN "wordlist"
    ELSE IF a.download_eff THEN "eff"
    ELSE "default"

\* the branch of "Determine wordlist source" a command line takes
SourceBranch(a) ==
    IF a.download_eff THEN "eff"
    ELSE IF Truthy(a.wordlist) THEN "wordlist"
    ELSE "default"

\* eprint(msg); return code
Return(msgs, code) ==
    /\ stderr' = stderr \o msgs
    /\ exit_code' = code
    /\ pc' = "done"

\* an exception leaves main(): traceback on stderr, exit status 1
Raise(msgs, exc) == Return(msgs \o <<exc>>, 1)

URLError == "Traceback: urllib.error.URLError"

CheckArgs ==
    /\ pc = "check_args"
    /\ IF ArgsError(args) # <<>>
       THEN Return(ArgsError(args), 2)
       ELSE /\ pc' = "resolve"
            /\ UNCHANGED <<stderr, exit_code>>
    /\ UNCHANGED <<args, exists, eff_content, words, raw, source, opened, net, resp,
                   n_printed, last, http_gets, file_writes>>

CheckEffCache ==
    /\ pc = "resolve"
    /\ SourceBranch(args) = "eff"
    /\ pc' = IF NeedsDownload(exists) THEN "urlopen" ELSE "parse_eff"
    /\ UNCHANGED <<args, exists, eff_content, words, raw, source, opened, net, resp,
                   stderr, n_printed, last, exit_code, http_gets, file_writes>>

\* variant: the destination is created before the request is made
UrlOpenCreatesFile ==
    /\ pc = "urlopen"
    /\ http_gets' = http_gets + 1
    /\ exists' = exists \cup {EffPath}
    /\ \E ok \in BOOLEAN :
          IF ok
          THEN /\ net' = "connected"
               /\ stderr' = Append(stderr, "Downloading EFF wordlist")
               /\ pc' = "read"
               /\ UNCHANGED exit_code
          ELSE /\ net' = "failed"
               /\ Raise(<<"Downloading EFF wordlist">>, URLError)
    /\ UNCHANGED <<args, eff_content, words, raw, source, opened, resp,
                   n_printed, last, file_writes>>

\* download_eff_wordlist: mkdir(exist_ok) of the cwd, eprint, urlopen(...)
UrlOpen ==
    /\ pc = "urlopen"
    /\ http_gets' = http_gets + 1
    /\ \E ok \in BOOLEAN :
          IF ok
          THEN /\ net' = "connected"
               /\ stderr' = Append(stderr, "Downloading EFF wordlist")
               /\ pc' = "read"
               /\ UNCHANGED exit_code
          ELSE /\ net' = "failed"
               /\ Raise(<<"Downloading EFF wordlist">>, URLError)
    /\ UNCHANGED <<args, exists, eff_content, words, raw, source, opened, resp,
                   n_printed, last, file_writes>>

\* content = resp.read()
RespRead ==
    /\ pc = "read"
    /\ \E ok \in BOOLEAN, c \in FileContents :
          IF ok
          THEN /\ resp' = <<c>>
               /\ pc' = "write"
               /\ UNCHANGED <<net, stderr, exit_code>>
          ELSE /\ net' = "failed"
               /\ Raise(<<>>, URLError)
               /\ UNCHANGED resp
    /\ UNCHANGED <<args, exists, eff_content, words, raw, source, opened,
                   n_printed, last, http_gets, file_writes>>

\* dest.write_bytes(content); eprint("Download complete.")
WriteCache ==
    /\ pc = "write"
    /\ exists' = exists \cup {EffPath}
    /\ eff_content' = resp
    /\ file_writes' = file_writes + 1
    /\ net' = "ok"
    /\ stderr' = Append(stderr, "Download complete.")
    /\ pc' = "parse_eff"
    /\ UNCHANGED <<args, words, raw, source, opened, resp, n_printed, last,
                   exit_code, http_gets>>

\* words = parse_eff_wordlist(eff_path, ...): the file holds what this run
\* wrote, or whatever an earlier run left there
ParseEff ==
    /\ pc = "parse_eff"
    /\ \E c \in (IF eff_content = <<>> THEN FileContents ELSE {eff_content[1]}) :
          /\ raw' = c
          /\ words' = parse_eff_wordlist(c, args.min_len, args.max_len, args.allow_apostrophe)
    /\ source' = "eff"
    /\ opened' = Append(opened, EffPath)
    /\ pc' = "warn"
    /\ UNCHANGED <<args, exists, eff_content, net, resp, stderr, n_printed, last,
                   exit_code, http_gets, file_writes>>

\* the --wordlist branch
LoadWordlist ==
    /\ pc = "resolve"
    /\ SourceBranch(args) = "wordlist"
    /\ IF args.wordlist[1] \notin exists
       THEN /\ Return(<<"Error: wordlist file not found">>, 2)
            /\ UNCHANGED <<words, raw, source, opened>>
       ELSE /\ \E c \in FileContents :
                  /\ raw' = c
                  /\ words' = load_words_from_file(c, args.min_len, args.max_len,
                                                   args.allow_apostrophe)
            /\ source' = "wordlist"
            /\ opened' = Append(opened, args.wordlist[1])
            /\ pc' = "warn"
            /\ UNCHANGED <<stderr, exit_code>>
    /\ UNCHANGED <<args, exists, eff_content, net, resp, n_printed, last,
                   http_gets, file_writes>>

\* no --wordlist: a system dictionary, else the built-in list
LoadDefault ==
    /\ pc = "resolve"
    /\ SourceBranch(args) = "default"
    /\ LET default_path == find_default_wordlist(exists)
       IN  IF default_path # <<>>
           THEN /\ \E c \in FileContents :
                      /\ raw' = c
                      /\ words' = load_words_from_file(c, args.min_len, args.max_len,
                                                       args.allow_apostrophe)
                /\ source' = "sysdict"
                /\ opened' = Append(opened, default_path[1])
           ELSE /\ raw' = FALLBACK_WORDS
                /\ words' = FallbackFilter(args.min_len, args.max_len, args.allow_apostrophe)
                /\ source' = "fallback"
                /\ UNCHANGED opened
    /\ pc' = "warn"
    /\ UNCHANGED <<args, exists, eff_content, net, resp, stderr, n_printed, last,
                   exit_code, http_gets, file_writes>>

SizeWarning == "Warning: wordlist size is small"
EmptyError == "Error: no usable words available after filtering."

\* variant: a list below the threshold is treated as fatal
WarnAndCheckFatalWarning ==
    /\ pc = "warn"
    /\ IF Len(words) < WarnThreshold
       THEN Return(<<SizeWarning>>, 2)
       ELSE /\ pc' = "generate"
            /\ UNCHANGED <<stderr, exit_code>>
    /\ UNCHANGED <<args, exists, eff_content, words, raw, source, opened, net, resp,
                   n_printed, last, http_gets, file_writes>>

\* the size warning, then the empty-list error
WarnAndCheck ==
    /\ pc = "warn"
    /\ LET warn == IF Len(words) < WarnThreshold THEN <<SizeWarning>> ELSE <<>>
       IN  IF Len(words) = 0
           THEN Return(warn \o <<EmptyError>>, 2)
           ELSE /\ stderr' = stderr \o warn
                /\ pc' = "generate"
                /\ UNCHANGED exit_code
    /\ UNCHANGED <<args, exists, eff_content, words, raw, source, opened, net, resp,
                   n_printed, last, http_gets, file_writes>>

\* one iteration of "for _ in range(args.count)": the passphrase goes to
\* standard output, of which the line count and the last line are kept
Generate ==
    /\ pc = "generate"
    /\ n_printed < args.count
    /\ \E sep \in choose_separator(args.sep, args.sep_set) :
          \E g \in generate_passphrase(words, args.words, sep, args.titlecase) :
              last' = g
    /\ n_printed' = n_printed + 1
    /\ UNCHANGED <<args, exists, eff_content, pc, words, raw, source, opened, net, resp,
                   stderr, exit_code, http_gets, file_writes>>

\* return 0
Finish ==
    /\ pc = "generate"
    /\ n_printed >= args.count
    /\ exit_code' = 0
    /\ pc' = "done"
    /\ UNCHANGED <<args, exists, eff_content, words, raw, source, opened, net, resp,
                   stderr, n_printed, last, http_gets, file_writes>>

Next ==
    \/ CheckArgs
    \/ CheckEffCache
    \/ UrlOpen
    \/ RespRead
    \/ WriteCache
    \/ ParseEff
    \/ LoadWordlist
    \/ LoadDefault
    \/ WarnAndCheck
    \/ Generate
    \/ Finish

Spec == Init /\ [][Next]_vars

\* main() with the built-in word list
NextGen ==
    \/ CheckArgs
    \/ LoadDefault
    \/ WarnAndCheck
    \/ Generate
    \/ Finish

SpecGen == InitGen /\ [][NextGen]_vars

-----------------------------------------------------------------------------
(* The filter functions applied to arbitrary lines *)

ApplyLoadWordsFromFile ==
    /\ pc = "filter"
    /\ \E lines \in BoundedSeq(RawLines, MaxLines) :
          /\ raw' = lines
          /\ words' = load_words_from_file(lines, args.min_len, args.max_len,
                                           args.allow_apostrophe)
    /\ source' = "wordlist"
    /\ pc' = "filtered"
    /\ UNCHANGED <<args, exists, eff_content, opened, net, resp, stderr, n_printed,
                   last, exit_code, http_gets, file_writes>>

ApplyParseEffWordlist ==
    /\ pc = "filter"
    /\ \E lines \in BoundedSeq(RawLines, MaxLines) :
          /\ raw' = lines
          /\ words' = parse_eff_wordlist(lines, args.min_len, args.max_len,
                                         args.allow_apostrophe)
    /\ source' = "eff"
    /\ pc' = "filtered"
    /\ UNCHANGED <<args, exists, eff_content, opened, net, resp, stderr, n_printed,
                   last, exit_code, http_gets, file_writes>>

ApplyFallbackFilter ==
    /\ pc = "filter"
    /\ raw' = FALLBACK_WORDS
    /\ words' = FallbackFilter(args.min_len, args.max_len, args.allow_apostrophe)
    /\ source' = "fallback"
    /\ pc' = "filtered"
    /\ UNCHANGED <<args, exists, eff_content, opened, net, resp, stderr, n_printed,
                   last, exit_code, http_gets, file_writes>>

NextFilter ==
    \/ ApplyLoadWordsFromFile
    \/ ApplyParseEffWordlist
    \/ ApplyFallbackFilter

SpecFilter == InitFilter /\ [][NextFilter]_vars

-----------------------------------------------------------------------------
(* Properties *)

Range(f) == {f[i] : i \in DOMAIN f}

\* Python's "sub in s"
StrContains(s, sub) ==
    \E i \in 1..(Len(s) - Len(sub) + 1) : SubSeq(s, i, i + Len(sub) - 1) = sub

\* Python's s.split(sep) for a non-empty sep: non-overlapping, left to right
RECURSIVE StrSplit(_, _)
StrSplit(s, sep) ==
    LET n == Len(sep)
        hits == {i \in 1..(Len(s) - n + 1) : SubSeq(s, i, i + n - 1) = sep}
    IN  IF hits = {} THEN <<s>>
        ELSE LET k == CHOOSE i \in hits : \A j \in hits : i <= j
             IN  <<SubSeq(s, 1, k - 1)>> \o StrSplit(SubSeq(s, k + n, Len(s)), sep)

\* the validity predicate, stated on the characters of w
ValidWord(w, min_len, max_len, allow_apostrophe) ==
    LET apos == {i \in 1..Len(w) : w[i] = "'"}
    IN  /\ min_len <= Len(w) /\ Len(w) <= max_len
        /\ \A i \in (1..Len(w)) \ apos : IsLowerAZ(w[i])
        /\ \/ apos = {}
           \/ /\ allow_apostrophe
              /\ Cardinality(apos) = 1
              /\ 1 \notin apos /\ Len(w) \notin apos

ArgsValid ==
    /\ args.words >= 2
    /\ args.count >= 1
    /\ 1 <= args.min_len /\ args.min_len <= args.max_len

\* C1: every word of the list main hands to generate_passphrase has a length
\* in [min_len, max_len] and is made of lowercase letters only, or, with
\* allow_apostrophe, of lowercase letters and at most one apostrophe that has
\* letters on both sides.
C1_FilteredWordsValid ==
    \A i \in DOMAIN words :
        ValidWord(words[i], args.min_len, args.max_len, args.allow_apostrophe)

C1_Witness ==
    /\ pc = "generate" /\ n_printed > 0
    /\ source = "eff"
    /\ args.allow_apostrophe
    /\ \E i \in DOMAIN words : StrContains(words[i], <<"'">>)
    /\ \E i \in DOMAIN words : ~StrContains(words[i], <<"'">>)

\* a wordlist file path was supplied (a non-empty --wordlist value)
WordlistGiven == args.wordlist # <<>> /\ args.wordlist[1] # ""

\* the run's outcome is an error: nothing printed, and once the process has
\* exited, a non-zero status and a diagnostic on stderr
ErrorOutcome ==
    /\ n_printed = 0
    /\ pc = "done" => exit_code # 0 /\ stderr # <<>>

InvalidNumbers ==
    \/ args.words < 2
    \/ args.count < 1
    \/ args.min_len < 1
    \/ args.max_len < args.min_len

FilteredListEmpty == source # "none" /\ words = <<>>

\* C2 as stated: a run with word count < 2, passphrase count < 1, invalid
\* length bounds, a supplied wordlist path that does not exist, or an empty
\* filtered list ends in an error, whatever the other options are (the
\* remote-list option included).
C2_Original ==
    (\/ InvalidNumbers
     \/ WordlistGiven /\ args.wordlist[1] \notin exists
     \/ FilteredListEmpty)
    => ErrorOutcome

\* C2 amended: the missing wordlist file is an error only when the
\* remote-list option is not set.
C2_InvalidRunFails ==
    (\/ InvalidNumbers
     \/ /\ ~args.download_eff
        /\ WordlistGiven /\ args.wordlist[1] \notin exists
     \/ FilteredListEmpty)
    => ErrorOutcome

C2_Witness ==
    /\ pc = "done" /\ exit_code = 2
    /\ ArgsValid
    /\ ~args.download_eff
    /\ args.wordlist = <<UserWordlist>> /\ UserWordlist \notin exists
    /\ source = "none"

SomeSystemDictionary == \E p \in Range(DEFAULT_WORDLIST_CANDIDATES) : p \in exists

\* C5 as stated: the source is the explicit wordlist file, else the remote
\* list, else the first existing system dictionary, else the built-in list;
\* with both a wordlist path and the remote option the remote list is
\* neither fetched nor parsed.
C5_Original ==
    /\ source # "none" =>
          source = IF WordlistGiven THEN "wordlist"
                   ELSE IF args.download_eff THEN "eff"
                   ELSE IF SomeSystemDictionary THEN "sysdict"
                   ELSE "fallback"
    /\ (WordlistGiven /\ args.download_eff) =>
          http_gets = 0 /\ EffPath \notin Range(opened)

\* C5 amended: the source is the remote list when requested, else the
\* explicit wordlist file when a path is given, else the first
\* existing system dictionary, else the built-in list; with both a wordlist
\* path and the remote option the wordlist file is never read.
C5_SourcePriority ==
    /\ source # "none" =>
          source = IF args.download_eff THEN "eff"
                   ELSE IF WordlistGiven THEN "wordlist"
                   ELSE IF SomeSystemDictionary THEN "sysdict"
                   ELSE "fallback"
    /\ source = "eff" => opened = <<EffPath>>
    /\ source = "wordlist" => opened = <<args.wordlist[1]>>
    /\ source = "sysdict" =>
          /\ Len(opened) = 1
          /\ \E i \in DOMAIN DEFAULT_WORDLIST_CANDIDATES :
                /\ opened[1] = DEFAULT_WORDLIST_CANDIDATES[i]
                /\ opened[1] \in exists
                /\ \A j \in 1..(i - 1) : DEFAULT_WORDLIST_CANDIDATES[j] \notin exists
    /\ source = "fallback" => opened = <<>>
    /\ source = "none" => opened = <<>>

C5_Witness ==
    /\ pc = "done" /\ exit_code = 0
    /\ args.download_eff
    /\ args.wordlist = <<UserWordlist>> /\ UserWordlist \in exists
    /\ source = "eff"

\* C8: when the remote list is requested, no cached copy exists and the
\* fetch fails, the process exits non-zero with a network-error diagnostic,
\* prints nothing and leaves no cache file; the cache file is written only
\* once the whole response has been read.
C8_FetchFailureLeavesNoFile ==
    /\ net = "failed" =>
          /\ args.download_eff
          /\ pc = "done" /\ exit_code # 0
          /\ URLError \in Range(stderr)
          /\ n_printed = 0
          /\ EffPath \notin exists
          /\ file_writes = 0
    /\ file_writes > 0 => resp # <<>> /\ eff_content = resp /\ EffPath \in exists

C8_Witness ==
    /\ net = "failed" /\ pc = "done"
    /\ http_gets = 1
    /\ Len(stderr) = 2

\* C10: a run issues at most one HTTP GET and at most one cache-file write,
\* and only when the remote option is selected, the arguments passed the
\* checks and no cached copy exists; no other step fetches or writes.
C10_AtMostOneFetchAndWrite ==
    [][ /\ http_gets' # http_gets =>
              /\ http_gets = 0 /\ http_gets' = 1
              /\ file_writes = 0
              /\ args.download_eff /\ ArgsValid
              /\ EffPath \notin exists
        /\ file_writes' # file_writes =>
              /\ file_writes = 0 /\ file_writes' = 1
              /\ http_gets = 1
              /\ args.download_eff /\ ArgsValid
              /\ EffPath \notin exists
        /\ exists' # exists => file_writes' # file_writes /\ exists' = exists \cup {EffPath}
      ]_vars

C10_Witness ==
    /\ pc = "done" /\ exit_code = 0
    /\ http_gets = 1 /\ file_writes = 1
    /\ n_printed = args.count

\* the words of the last passphrase, as joined, hold no character of sep
NoSeparatorCharInWords ==
    \A k \in DOMAIN last.chosen : \A i \in DOMAIN last.chosen[k] :
        \A j \in DOMAIN last.sep : last.chosen[k][i] # last.sep[j]

\* C4 as stated: a passphrase splits into exactly N segments on the separator
\* used for it, provided none of the chosen words contains that separator.
C4_Original ==
    (/\ n_printed > 0
     /\ \A k \in DOMAIN last.chosen : ~StrContains(last.chosen[k], last.sep))
    => Len(StrSplit(last.out, last.sep)) = args.words

\* C4 amended: a passphrase splits into exactly N segments (the N words, in
\* order) on the separator used for it, provided the separator is non-empty
\* and none of the words as joined contains any character of the separator.
C4_SplitsIntoNWords ==
    (n_printed > 0 /\ last.sep # <<>> /\ NoSeparatorCharInWords)
    => /\ Len(StrSplit(last.out, last.sep)) = args.words
       /\ StrSplit(last.out, last.sep) = last.chosen

C4_Witness ==
    /\ n_printed > 0
    /\ args.words = 2
    /\ args.titlecase
    /\ last.sep = <<"A">>
    /\ NoSeparatorCharInWords
    /\ Len(StrSplit(last.out, last.sep)) = 2

\* out is the words of parts, in order, with sep between neighbours
RECURSIVE JoinedWith(_, _, _)
JoinedWith(out, parts, sep) ==
    IF parts = <<>> THEN out = <<>>
    ELSE LET w == Head(parts)
         IN  /\ Len(out) >= Len(w)
             /\ SubSeq(out, 1, Len(w)) = w
             /\ IF Len(parts) = 1 THEN Len(out) = Len(w)
                ELSE /\ Len(out) >= Len(w) + Len(sep)
                     /\ SubSeq(out, Len(w) + 1, Len(w) + Len(sep)) = sep
                     /\ JoinedWith(SubSeq(out, Len(w) + Len(sep) + 1, Len(out)),
                                   Tail(parts), sep)

\* C6 as stated: with a fixed separator every passphrase is joined with
\* exactly it; without one, the separator chosen for a passphrase is a single
\* character of the configured separator set.
C6_Original ==
    n_printed > 0 =>
        /\ JoinedWith(last.out, last.chosen, last.sep)
        /\ IF args.sep # <<>>
           THEN last.sep = args.sep[1]
           ELSE /\ Len(last.sep) = 1
                /\ \E i \in DOMAIN args.sep_set : args.sep_set[i] = last.sep[1]

\* C6 amended: without a fixed separator, the separator is a single character
\* of the separator set when the set is non-empty, and a hyphen when it is
\* empty.
C6_SeparatorUsed ==
    n_printed > 0 =>
        /\ JoinedWith(last.out, last.chosen, last.sep)
        /\ IF args.sep # <<>>
           THEN last.sep = args.sep[1]
           ELSE IF args.sep_set = <<>>
           THEN last.sep = <<"-">>
           ELSE /\ Len(last.sep) = 1
                /\ \E i \in DOMAIN args.sep_set : args.sep_set[i] = last.sep[1]

C6_Witness ==
    /\ n_printed = 2
    /\ args.sep = <<>> /\ args.sep_set = <<>>
    /\ last.sep = <<"-">>
    /\ Len(last.out) > 1

\* every letter of w is upper case
FullyUppercased(w) ==
    /\ \E i \in DOMAIN w : IsUpperAZ(w[i])
    /\ \A i \in DOMAIN w : ~IsLowerAZ(w[i])

\* w with its first letter upper-cased, the rest as in w
TitleCased(w) == [i \in DOMAIN w |-> IF i = 1 THEN ToUpper(w[i]) ELSE w[i]]

\* C7 as stated: with the capitalization option, at least one and at most N
\* positions of a passphrase hold a fully uppercased word, and every other
\* position holds a word of the list unchanged.
C7_Original ==
    (n_printed > 0 /\ args.titlecase) =>
        LET upper == {k \in DOMAIN last.chosen : FullyUppercased(last.chosen[k])}
        IN  /\ Cardinality(upper) >= 1
            /\ Cardinality(upper) <= args.words
            /\ \A k \in DOMAIN last.chosen \ upper : last.chosen[k] \in Range(words)

\* C7 amended: with the capitalization option (--titlecase), exactly one of
\* the N positions holds a word of the list with only its first letter
\* upper-cased, and every other position holds a word of the list unchanged.
C7_ExactlyOneTitleCased ==
    (n_printed > 0 /\ args.titlecase) =>
        LET changed == {k \in DOMAIN last.chosen : last.chosen[k] \notin Range(words)}
        IN  /\ DOMAIN last.chosen = 1..args.words
            /\ Cardinality(changed) = 1
            /\ \A k \in changed :
                  /\ \E w \in Range(words) : last.chosen[k] = TitleCased(w)
                  /\ ~FullyUppercased(last.chosen[k])

C7_Witness ==
    /\ n_printed > 0 /\ args.titlecase
    /\ args.words = 2
    /\ last.chosen[2] = <<"O","r","b","i","t">>
    /\ last.chosen[1] = <<"o","r","b","i","t">>

\* the candidate word of line i of raw for the source read, or none
Candidate(i) ==
    IF source = "eff"
    THEN LET parts == StrSplitWs(raw[i])
         IN  IF Len(parts) < 2 THEN <<>> ELSE <<StrLower(parts[2])>>
    ELSE <<StrLower(StrStrip(raw[i]))>>

ValidCandidates ==
    {i \in DOMAIN raw :
        /\ Candidate(i) # <<>>
        /\ ValidWord(Candidate(i)[1], args.min_len, args.max_len, args.allow_apostrophe)}

FirstOccurrence(w) ==
    CHOOSE i \in ValidCandidates :
        /\ Candidate(i)[1] = w
        /\ \A j \in ValidCandidates : Candidate(j)[1] = w => i <= j

====
